---------------------------- MODULE Spec2Model ----------------------------
(***************************************************************************)
(* Model of src/Dashboard.py: a Streamlit sales dashboard.  Every change   *)
(* of a sidebar widget re-runs the whole script: the master search filter  *)
(* (apply_master_filter), the attribute filter chain and the aggregations  *)
(* of update_dashboard, and the top-level code that shows the outcome.     *)
(*                                                                         *)
(* Strings that the regex search reads are handled as sequences of         *)
(* one-character strings (Chars); everything else keeps the source's       *)
(* values.  A float is an exact rational or one of the IEEE specials.      *)
(***************************************************************************)
EXTENDS Integers, Sequences, FiniteSets, TLC

\* ------------------------------------------------------------------------
\* Bounds of the model
\* ------------------------------------------------------------------------

\* Largest number of rows of the loaded dataset.
MaxRows == 2

\* Largest number of sidebar widgets that are away from their default value.
MaxSelections == 2

\* ------------------------------------------------------------------------
\* Period calendar (Dashboard.py 52-67)
\* ------------------------------------------------------------------------

all_months ==
    <<"Jan", "Feb", "Mar", "Apr", "May", "Jun",
      "Jul", "Aug", "Sep", "Oct", "Nov", "Dec">>

quarter_map ==
    [Q1 |-> <<"Jan", "Feb", "Mar">>,
     Q2 |-> <<"Apr", "May", "Jun">>,
     Q3 |-> <<"Jul", "Aug", "Sep">>,
     Q4 |-> <<"Oct", "Nov", "Dec">>]

Range(s) == {s[i] : i \in DOMAIN s}

\* the concatenation of a list of lists
RECURSIVE Concat(_)
Concat(seqs) == IF seqs = <<>> THEN <<>> ELSE Head(seqs) \o Concat(Tail(seqs))

\* all_months.index(x): 0-based position of x in all_months
MonthIndex(x) == (CHOOSE i \in DOMAIN all_months : all_months[i] = x) - 1

\* sorted(values, key=lambda x: all_months.index(x)) for a set of distinct
\* canonical months: insertion sort on the key
RECURSIVE SortByMonthIndex(_)
SortByMonthIndex(S) ==
    IF S = {} THEN <<>>
    ELSE LET first == CHOOSE m \in S :
                          \A n \in S : MonthIndex(m) <= MonthIndex(n)
         IN  <<first>> \o SortByMonthIndex(S \ {first})

\* ------------------------------------------------------------------------
\* The datasets read by the loader (Dashboard.py 25-50)
\* ------------------------------------------------------------------------

None == "None"

customer_master ==
    [c \in {7, 8} |->
        IF c = 7 THEN [customer_name |-> "Ann", customer_category |-> "Ret"]
                 ELSE [customer_name |-> "Zed", customer_category |-> "Who"]]

item_master ==
    [A1 |-> [item_description |-> "Tea",  item_category |-> "Bev"],
     B2 |-> [item_description |-> "Rice", item_category |-> "Food"]]

Row(c, s, i, a, m, p, t, w) ==
    [customer_code     |-> c,
     customer_name     |-> customer_master[c].customer_name,
     customer_category |-> customer_master[c].customer_category,
     salesman          |-> s,
     item_code         |-> i,
     item_description  |-> item_master[i].item_description,
     item_category     |-> item_master[i].item_category,
     area              |-> a,
     month             |-> m,
     payment_type      |-> p,
     total             |-> t,
     weight            |-> w]

\* The transaction records a sales file is made of.  Their order is not
\* the calendar order; a customer buys in several months, from several
\* salesmen and pays both ways; one payment is neither Cash nor Credit;
\* some totals and weights are zero; total and weight rank the rows
\* differently.
Catalogue ==
    << Row(7, "Al", "A1", "East", "May", "Cash",   100, 3),
       Row(7, "Bo", "B2", "West", "Jan", "Credit", 100, 1),
       Row(8, "Al", "A1", "West", "Feb", "Cash",   150, 2),
       Row(8, "Bo", "A1", "East", "Jan", "Cheque", 0,   2),
       Row(7, "Bo", "A1", "East", "Apr", "Cash",   150, 0),
       Row(8, "Al", "B2", "West", "Apr", "Credit", 0,   1) >>

\* the rows of the catalogue at the positions of I, in catalogue order
RECURSIVE Pick(_)
Pick(I) ==
    IF I = {} THEN <<>>
    ELSE LET i == CHOOSE x \in I : \A y \in I : x <= y
         IN  <<Catalogue[i]>> \o Pick(I \ {i})

\* pd.read_csv / pd.read_excel: a non-empty table (an empty one stops the
\* script at line 50)
Datasets ==
    {Pick(I) : I \in {J \in SUBSET DOMAIN Catalogue :
                          J # {} /\ Cardinality(J) <= MaxRows}}


\* ------------------------------------------------------------------------
\* Strings: astype(str), str.lower(), str.contains(regex=True)
\* ------------------------------------------------------------------------

\* the characters of the string values of the catalogue
Chars ==
    [Jan  |-> <<"J", "a", "n">>,      Feb  |-> <<"F", "e", "b">>,
     Apr  |-> <<"A", "p", "r">>,      May  |-> <<"M", "a", "y">>,
     East |-> <<"E", "a", "s", "t">>, West |-> <<"W", "e", "s", "t">>,
     Al   |-> <<"A", "l">>,           Bo   |-> <<"B", "o">>,
     Ann  |-> <<"A", "n", "n">>,      Zed  |-> <<"Z", "e", "d">>,
     Ret  |-> <<"R", "e", "t">>,      Who  |-> <<"W", "h", "o">>,
     A1   |-> <<"A", "1">>,           B2   |-> <<"B", "2">>,
     Tea  |-> <<"T", "e", "a">>,      Rice |-> <<"R", "i", "c", "e">>,
     Bev  |-> <<"B", "e", "v">>,      Food |-> <<"F", "o", "o", "d">>]

Digits == <<"0", "1", "2", "3", "4", "5", "6", "7", "8", "9">>

\* str(n) of a non-negative integer
RECURSIVE IntToStr(_)
IntToStr(n) ==
    IF n < 10 THEN <<Digits[n + 1]>>
    ELSE IntToStr(n \div 10) \o <<Digits[(n % 10) + 1]>>

\* df[col].astype(str) of one row
AsStr(row, col) ==
    IF col = "customer_code" THEN IntToStr(row[col]) ELSE Chars[row[col]]

UpperToLower ==
    [A |-> "a", B |-> "b", C |-> "c", D |-> "d", E |-> "e", F |-> "f",
     G |-> "g", H |-> "h", I |-> "i", J |-> "j", K |-> "k", L |-> "l",
     M |-> "m", N |-> "n", O |-> "o", P |-> "p", Q |-> "q", R |-> "r",
     S |-> "s", T |-> "t", U |-> "u", V |-> "v", W |-> "w", X |-> "x",
     Y |-> "y", Z |-> "z"]

\* str.lower()
Lower(s) ==
    [i \in DOMAIN s |->
        IF s[i] \in DOMAIN UpperToLower THEN UpperToLower[s[i]] ELSE s[i]]

\* re.compile(pat) raises re.error ("unterminated character set") for a
\* "[" that no "]" closes.  The patterns of the model are made of letters,
\* digits, "." and "[".
RegexCompiles(pat) ==
    \A i \in DOMAIN pat :
        pat[i] = "[" => \E j \in DOMAIN pat : j > i /\ pat[j] = "]"

\* re.search(pat, s) for a pattern of literals and "." (any character)
RegexSearch(pat, s) ==
    \E off \in 0..(Len(s) - Len(pat)) :
        \A j \in DOMAIN pat : pat[j] = "." \/ pat[j] = s[off + j]

\* ------------------------------------------------------------------------
\* apply_master_filter (Dashboard.py 69-85)
\* ------------------------------------------------------------------------

search_columns ==
    <<"customer_code", "customer_name", "customer_category", "salesman",
      "item_code", "item_description", "item_category", "month", "area">>

\* lines 74-83: the rows where some search column contains the pattern
MaskedRows(df, term) ==
    SelectSeq(df, LAMBDA row :
        \E c \in DOMAIN search_columns :
            RegexSearch(term, Lower(AsStr(row, search_columns[c]))))

\* lines 83-85
ReturnFiltered(filtered_df) ==
    [raised |-> FALSE, df |-> filtered_df, found |-> Len(filtered_df) > 0]

\* lines 73-85, with the lower-cased search term
SearchLowered(df, term) ==
    IF ~RegexCompiles(term)
    THEN [raised |-> TRUE, df |-> <<>>, found |-> FALSE]
    ELSE ReturnFiltered(MaskedRows(df, term))

\* The result of a call: either it raised (str.contains compiles the
\* pattern and nothing catches re.error) or it returned (df, found).
apply_master_filter(df, search_term) ==
    IF search_term = <<>>
    THEN [raised |-> FALSE, df |-> df, found |-> TRUE]
    ELSE SearchLowered(df, Lower(search_term))

\* ------------------------------------------------------------------------
\* update_filter_options (Dashboard.py 87-97)
\* ------------------------------------------------------------------------

filter_names ==
    {"area", "month", "quarter", "customer_category", "salesman",
     "item_category", "customer_name", "item_description"}

\* the options of each selectbox, as sets
update_filter_options(filtered) ==
    [f \in filter_names |->
        IF f = "quarter" THEN {None} \cup DOMAIN quarter_map
        ELSE {None} \cup {filtered[i][f] : i \in DOMAIN filtered}]

\* ------------------------------------------------------------------------
\* update_dashboard: the attribute filter chain (Dashboard.py 172-198)
\* ------------------------------------------------------------------------

\* filtered_data[filtered_data[col] == value]
FilterEq(df, col, value) == SelectSeq(df, LAMBDA row : row[col] = value)

\* isin with its boolean mask one row late: a row is kept when the row
\* before it has one of the months
FilterIsin_Shifted(df, months) ==
    LET keep == {i \in DOMAIN df : i > 1 /\ df[i - 1].month \in Range(months)}
    IN  Concat([i \in DOMAIN df |-> IF i \in keep THEN <<df[i]>> ELSE <<>>])

\* filtered_data[filtered_data['month'].isin(months)]
FilterIsin(df, months) == SelectSeq(df, LAMBDA row : row.month \in Range(months))

\* lines 173-174, 189-198: one optional equality filter
OptionalFilter(df, col, selected) ==
    IF selected # None THEN FilterEq(df, col, selected) ELSE df

\* line 182: the selected month is not one of the selected quarter's
MonthQuarterConflict(sel) ==
    /\ sel.month # None
    /\ sel.quarter # None
    /\ sel.month \notin Range(quarter_map[sel.quarter])

\* the month / quarter rule with the month taking precedence whenever a
\* month is selected
MonthQuarterFilter_MonthFirst(df, sel) ==
    IF sel.month # None THEN FilterEq(df, "month", sel.month)
    ELSE IF sel.quarter # None THEN FilterIsin(df, quarter_map[sel.quarter])
    ELSE df

\* lines 176-187: the month / quarter rule
MonthQuarterFilter(df, sel) ==
    IF sel.month # None /\ sel.quarter = None
    THEN FilterEq(df, "month", sel.month)
    ELSE IF sel.quarter # None /\ sel.month = None
    THEN FilterIsin(df, quarter_map[sel.quarter])
    ELSE IF sel.month # None /\ sel.quarter # None
    THEN IF sel.month \notin Range(quarter_map[sel.quarter])
         THEN FilterIsin(df, quarter_map[sel.quarter])
         ELSE FilterEq(df, "month", sel.month)
    ELSE df

\* lines 172-198, in the order of the code
FilterChain(df, sel) ==
    LET d1 == OptionalFilter(df, "area", sel.area)
        d2 == MonthQuarterFilter(d1, sel)
        d3 == OptionalFilter(d2, "customer_category", sel.customer_category)
        d4 == OptionalFilter(d3, "salesman", sel.salesman)
        d5 == OptionalFilter(d4, "item_category", sel.item_category)
        d6 == OptionalFilter(d5, "customer_name", sel.customer_name)
    IN  OptionalFilter(d6, "item_description", sel.item_description)

\* ------------------------------------------------------------------------
\* Numbers and orderings of pandas
\* ------------------------------------------------------------------------

Abs(n) == IF n < 0 THEN -n ELSE n

RECURSIVE Gcd(_, _)
Gcd(a, b) == IF b = 0 THEN a ELSE Gcd(b, a % b)

\* the float n / d (d # 0), as a fraction in lowest terms
Frac(n, d) ==
    LET g == Gcd(Abs(n), Abs(d))
        sgn == IF d < 0 THEN -1 ELSE 1
    IN  [kind |-> "num", num |-> sgn * (n \div g), den |-> sgn * (d \div g)]

NaN == [kind |-> "nan"]

Inf(sign) == [kind |-> "inf", sign |-> sign]

\* one element of Series.pct_change() * 100: cur / prev - 1 in IEEE floats
PctChange(prev, cur) ==
    IF prev # 0 THEN Frac((cur - prev) * 100, prev)
    ELSE IF cur = 0 THEN NaN
    ELSE Inf(IF cur > 0 THEN 1 ELSE -1)

\* df[col].sum()
RECURSIVE SumCol(_, _)
SumCol(df, col) ==
    IF df = <<>> THEN 0 ELSE Head(df)[col] + SumCol(Tail(df), col)

\* the set of values of a column; df[col].nunique() is its cardinality
Values(df, col) == {df[i][col] : i \in DOMAIN df}

\* the characters in the order of their code points
CodePoints ==
    <<"0", "1", "2", "3", "4", "5", "6", "7", "8", "9",
      "A", "B", "C", "D", "E", "F", "G", "H", "I", "J", "K", "L", "M",
      "N", "O", "P", "Q", "R", "S", "T", "U", "V", "W", "X", "Y", "Z",
      "a", "b", "c", "d", "e", "f", "g", "h", "i", "j", "k", "l", "m",
      "n", "o", "p", "q", "r", "s", "t", "u", "v", "w", "x", "y", "z">>

Ord(ch) == CHOOSE i \in DOMAIN CodePoints : CodePoints[i] = ch

\* a <= b for Python strings
RECURSIVE StrLeq(_, _)
StrLeq(a, b) ==
    IF a = <<>> THEN TRUE
    ELSE IF b = <<>> THEN FALSE
    ELSE IF Head(a) # Head(b) THEN Ord(Head(a)) < Ord(Head(b))
    ELSE StrLeq(Tail(a), Tail(b))

\* the keys of a groupby (sort=True): ascending as strings
RECURSIVE SortedKeys(_)
SortedKeys(S) ==
    IF S = {} THEN <<>>
    ELSE LET first == CHOOSE k \in S :
                          \A l \in S : StrLeq(Chars[k], Chars[l])
         IN  <<first>> \o SortedKeys(S \ {first})

\* sort_values on a Categorical column (stable): the rows of the first
\* category, then those of the second, ...
RECURSIVE SortByCategory(_, _)
SortByCategory(rows, categories) ==
    IF categories = <<>> THEN <<>>
    ELSE SelectSeq(rows, LAMBDA r : r.month = Head(categories))
             \o SortByCategory(rows, Tail(categories))

\* a set of integers as a list, ascending
RECURSIVE Ascending(_)
Ascending(S) ==
    IF S = {} THEN <<>>
    ELSE LET least == CHOOSE x \in S : \A y \in S : x <= y
         IN  <<least>> \o Ascending(S \ {least})

\* ------------------------------------------------------------------------
\* update_dashboard: the aggregations (Dashboard.py 203-518)
\* ------------------------------------------------------------------------

\* lines 203-204
UniqueMonths(df) == SortByMonthIndex(Values(df, "month"))

\* lines 211-219: the payment-type counts and shares
PaymentStats(df) ==
    LET total_customers == Cardinality(Values(df, "customer_code"))
        Cash_count ==
            Cardinality(Values(FilterEq(df, "payment_type", "Cash"),
                               "customer_code"))
        Credit_count ==
            Cardinality(Values(FilterEq(df, "payment_type", "Credit"),
                               "customer_code"))
    IN  IF total_customers > 0
        THEN [Cash_count        |-> Cash_count,
              Credit_count      |-> Credit_count,
              Cash_percentage   |-> Frac(Cash_count, total_customers),
              Credit_percentage |-> Frac(Credit_count, total_customers)]
        ELSE [Cash_count        |-> 0,
              Credit_count      |-> 0,
              Cash_percentage   |-> Frac(0, 1),
              Credit_percentage |-> Frac(0, 1)]

\* lines 427-431 without 433-434: the rows in the order of the groupby, the
\* months ascending as strings
MonthlyKpis_Unsorted(df, main_variable, unique_months) ==
    LET keys == SortedKeys(Values(df, "month"))
    IN  [i \in DOMAIN keys |->
            LET g == FilterEq(df, "month", keys[i])
            IN  [month         |-> keys[i],
                 value         |-> SumCol(g, main_variable),
                 customer_code |-> Cardinality(Values(g, "customer_code")),
                 item_category |-> Cardinality(Values(g, "item_category"))]]

\* lines 427-434: one row per month, in the order of unique_months
MonthlyKpis(df, main_variable, unique_months) ==
    LET keys == SortedKeys(Values(df, "month"))
        grouped ==
            [i \in DOMAIN keys |->
                LET g == FilterEq(df, "month", keys[i])
                IN  [month         |-> keys[i],
                     value         |-> SumCol(g, main_variable),
                     customer_code |-> Cardinality(Values(g, "customer_code")),
                     item_category |-> Cardinality(Values(g, "item_category"))]]
    IN  SortByCategory(grouped, unique_months)

\* the loop without its line 454: the seen set is never updated
UpdateSeen_Skipped(all_customers, month_customers) == all_customers

\* line 454: all_customers.update(month_customers)
UpdateSeen(all_customers, month_customers) == all_customers \cup month_customers

\* lines 436-454: the loop over unique_months from position i on, with
\* the customers seen so far; one entry per month: the number of new
\* customers and their export rows
RECURSIVE NewCustomersLoop(_, _, _, _, _)
NewCustomersLoop(df, main_variable, months, i, all_customers) ==
    IF i > Len(months) THEN <<>>
    ELSE LET month == months[i]
             month_data == FilterEq(df, "month", month)
             month_customers == Values(month_data, "customer_code")
             new_month_customers == month_customers \ all_customers
             order == Ascending(new_month_customers)
             rows ==
                 [k \in DOMAIN order |->
                     [customer_code |-> order[k],
                      month         |-> month,
                      total         |->
                          SumCol(FilterEq(month_data, "customer_code", order[k]),
                                 main_variable)]]
         IN  <<[count |-> Cardinality(new_month_customers), rows |-> rows]>>
                 \o NewCustomersLoop(df, main_variable, months, i + 1,
                                     UpdateSeen(all_customers, month_customers))

\* the loop without its line 478: the seen set is never updated
UpdateCombinations_Skipped(all_combinations, month_combinations) ==
    all_combinations

\* line 478: all_combinations.update(month_combinations)
UpdateCombinations(all_combinations, month_combinations) ==
    all_combinations \cup month_combinations

\* a set of (customer_code, item_code) pairs as a list: by customer code,
\* then by item code
RECURSIVE PairsInOrder(_)
PairsInOrder(S) ==
    IF S = {} THEN <<>>
    ELSE LET first == CHOOSE p \in S : \A q \in S :
                          \/ p[1] < q[1]
                          \/ p[1] = q[1] /\ StrLeq(Chars[p[2]], Chars[q[2]])
         IN  <<first>> \o PairsInOrder(S \ {first})

\* lines 458-478: the same loop over (customer_code, item_code) pairs; one
\* entry per month: the number of new pairs and their export rows
RECURSIVE NewlyListedLoop(_, _, _, _, _)
NewlyListedLoop(df, main_variable, months, i, all_combinations) ==
    IF i > Len(months) THEN <<>>
    ELSE LET month == months[i]
             month_data == FilterEq(df, "month", month)
             month_combinations ==
                 {<<month_data[k].customer_code, month_data[k].item_code>> :
                      k \in DOMAIN month_data}
             new_combinations == month_combinations \ all_combinations
             order == PairsInOrder(new_combinations)
             rows ==
                 [k \in DOMAIN order |->
                     [customer_code |-> order[k][1],
                      month         |-> month,
                      item_code     |-> order[k][2],
                      total         |->
                          SumCol(SelectSeq(month_data, LAMBDA row :
                                     /\ row.customer_code = order[k][1]
                                     /\ row.item_code = order[k][2]),
                                 main_variable)]]
         IN  <<[count |-> Cardinality(new_combinations), rows |-> rows]>>
                 \o NewlyListedLoop(df, main_variable, months, i + 1,
                        UpdateCombinations(all_combinations,
                                           month_combinations))

\* a grouped sum that keeps only the keys whose sum is not zero
GroupSum_NonZero(df, col, main_variable) ==
    LET keys == SortedKeys(Values(df, col))
    IN  SelectSeq([i \in DOMAIN keys |->
                      [key   |-> keys[i],
                       value |-> SumCol(FilterEq(df, col, keys[i]),
                                        main_variable)]],
                  LAMBDA r : r.value # 0)

\* groupby(col)[main_variable].sum().reset_index(): one row per key, the
\* keys ascending
GroupSum(df, col, main_variable) ==
    LET keys == SortedKeys(Values(df, col))
    IN  [i \in DOMAIN keys |->
            [key   |-> keys[i],
             value |-> SumCol(FilterEq(df, col, keys[i]), main_variable)]]

\* line 223
SalesByArea(df, main_variable) == GroupSum(df, "area", main_variable)

\* lines 227-229: the grouped sum by month, in the order of unique_months
SalesByMonth(df, main_variable, unique_months) ==
    LET keys == SortedKeys(Values(df, "month"))
        grouped ==
            [i \in DOMAIN keys |->
                [month |-> keys[i],
                 value |-> SumCol(FilterEq(df, "month", keys[i]),
                                  main_variable)]]
    IN  SortByCategory(grouped, unique_months)

\* the keys of quarter_map in the order of the dict (lines 62-66), which is
\* also their order as strings
quarter_names == <<"Q1", "Q2", "Q3", "Q4">>

\* a calendar of three quarters of four months
QuarterOf_FourMonths(x) == quarter_names[(MonthIndex(x) \div 4) + 1]

\* line 232: next((q for q, months in quarter_map.items() if x in months),
\* None)
QuarterOf(x) ==
    IF \E i \in DOMAIN quarter_names : x \in Range(quarter_map[quarter_names[i]])
    THEN quarter_names[CHOOSE i \in DOMAIN quarter_names :
            /\ x \in Range(quarter_map[quarter_names[i]])
            /\ \A j \in 1..(i - 1) :
                   x \notin Range(quarter_map[quarter_names[j]])]
    ELSE None

\* lines 231-233: the rows get a quarter column and are summed by it;
\* groupby drops the rows whose key is None
SalesByQuarter(df, main_variable) ==
    LET present ==
            SelectSeq(quarter_names, LAMBDA q :
                \E i \in DOMAIN df : QuarterOf(df[i].month) = q)
    IN  [k \in DOMAIN present |->
            [quarter |-> present[k],
             value   |->
                 SumCol(SelectSeq(df, LAMBDA row :
                            QuarterOf(row.month) = present[k]),
                        main_variable)]]

\* line 304: groupby(['salesman', 'area']) sum: one row per pair that
\* occurs, by salesman and then by area
SalesBySalesmanArea(df, main_variable) ==
    LET salesmen == SortedKeys(Values(df, "salesman"))
    IN  Concat([i \in DOMAIN salesmen |->
            LET g == FilterEq(df, "salesman", salesmen[i])
                areas == SortedKeys(Values(g, "area"))
            IN  [j \in DOMAIN areas |->
                    [salesman |-> salesmen[i],
                     area     |-> areas[j],
                     value    |-> SumCol(FilterEq(g, "area", areas[j]),
                                         main_variable)]]])

\* the per-salesman sums of line 305 before sort_values
SalesmanTotals(sales_by_salesman_area) ==
    LET salesmen ==
            SortedKeys({sales_by_salesman_area[i].salesman :
                            i \in DOMAIN sales_by_salesman_area})
    IN  [i \in DOMAIN salesmen |->
            [salesman |-> salesmen[i],
             value    |->
                 SumCol(SelectSeq(sales_by_salesman_area, LAMBDA r :
                            r.salesman = salesmen[i]), "value")]]

\* the salesmen left in the order of the groupby: by name
SortValuesDescending_Skipped(rows) == rows

\* sort_values(ascending=False): the largest value first; equal values
\* keep the order they had (numpy sorts short arrays by insertion)
RECURSIVE SortValuesDescending(_)
SortValuesDescending(rows) ==
    IF rows = <<>> THEN <<>>
    ELSE LET i == CHOOSE k \in DOMAIN rows :
                      /\ \A l \in DOMAIN rows : rows[l].value <= rows[k].value
                      /\ \A l \in 1..(k - 1) : rows[l].value < rows[k].value
         IN  <<rows[i]>> \o
                 SortValuesDescending(
                     SubSeq(rows, 1, i - 1) \o SubSeq(rows, i + 1, Len(rows)))

\* line 305: salesman_order
SalesmanOrder(sales_by_salesman_area) ==
    LET sorted == SortValuesDescending(SalesmanTotals(sales_by_salesman_area))
    IN  [i \in DOMAIN sorted |-> sorted[i].salesman]

\* pivot_table(index=col, columns='month', values=main_variable,
\* aggfunc='sum') (lines 325, 359, 393): one row per value of col and one
\* column per month that occurs, both ascending as strings; a cell is the
\* sum of the rows of its (key, month), NaN when there is none
PivotTable(df, col, main_variable) ==
    LET keys == SortedKeys(Values(df, col))
        months == SortedKeys(Values(df, "month"))
    IN  [columns |-> months,
         rows    |->
             [i \in DOMAIN keys |->
                 [key   |-> keys[i],
                  cells |->
                      [j \in DOMAIN months |->
                          LET g == SelectSeq(df, LAMBDA row :
                                       row[col] = keys[i]
                                           /\ row.month = months[j])
                          IN  IF g = <<>> THEN NaN
                              ELSE Frac(SumCol(g, main_variable), 1)]]]]

\* reindex(columns=new_columns) (lines 326, 360, 394): the columns named,
\* in that order; a column the table did not have is all NaN
Reindex(pivot, new_columns) ==
    [columns |-> new_columns,
     rows    |->
         [i \in DOMAIN pivot.rows |->
             [key   |-> pivot.rows[i].key,
              cells |->
                  [j \in DOMAIN new_columns |->
                      IF new_columns[j] \in Range(pivot.columns)
                      THEN pivot.rows[i].cells[
                               CHOOSE k \in DOMAIN pivot.columns :
                                   pivot.columns[k] = new_columns[j]]
                      ELSE NaN]]]]

\* sum(axis=1) of one row (lines 327, 361, 395): NaN cells are skipped
RECURSIVE RowTotal(_)
RowTotal(cells) ==
    IF cells = <<>> THEN 0
    ELSE (IF Head(cells).kind = "num" THEN Head(cells).num ELSE 0)
             + RowTotal(Tail(cells))

\* the rows left in the order of the pivot: by key
SortByTotalAscending_Skipped(rows) == rows

\* sort_values('total', ascending=True) (lines 328, 362, 396): the smallest
\* total first; equal totals keep the order they had
RECURSIVE SortByTotalAscending(_)
SortByTotalAscending(rows) ==
    IF rows = <<>> THEN <<>>
    ELSE LET i == CHOOSE k \in DOMAIN rows :
                      /\ \A l \in DOMAIN rows :
                             RowTotal(rows[k].cells) <= RowTotal(rows[l].cells)
                      /\ \A l \in 1..(k - 1) :
                             RowTotal(rows[k].cells) < RowTotal(rows[l].cells)
         IN  <<rows[i]>> \o
                 SortByTotalAscending(
                     SubSeq(rows, 1, i - 1) \o SubSeq(rows, i + 1, Len(rows)))

\* lines 326-329 on the pivot of line 325 (and 360-363, 394-397): the
\* 'total' column is added, sorted by and dropped
SortedPivot(pivot, unique_months) ==
    [columns |-> unique_months,
     rows    |-> SortByTotalAscending(Reindex(pivot, unique_months).rows)]

\* lines 325-329, 359-363, 393-397
Heatmap(df, col, main_variable, unique_months) ==
    SortedPivot(PivotTable(df, col, main_variable), unique_months)

\* lines 223-233, 304-305, 325-397: the tables the six figures are drawn
\* from
Figures(df, main_variable, unique_months) ==
    [sales_by_area          |-> SalesByArea(df, main_variable),
     sales_by_month         |-> SalesByMonth(df, main_variable, unique_months),
     sales_by_quarter       |-> SalesByQuarter(df, main_variable),
     sales_by_salesman_area |-> SalesBySalesmanArea(df, main_variable),
     salesman_order         |->
         SalesmanOrder(SalesBySalesmanArea(df, main_variable)),
     pivot_table_item       |->
         Heatmap(df, "item_category", main_variable, unique_months),
     pivot_table_item_description |->
         Heatmap(df, "item_description", main_variable, unique_months),
     pivot_table_customer   |->
         Heatmap(df, "customer_name", main_variable, unique_months)]

\* lines 486-490: the M.Change% column
MChange(monthly_kpis) ==
    IF Len(monthly_kpis) > 1
    THEN [i \in DOMAIN monthly_kpis |->
             IF i = 1 THEN NaN
             ELSE PctChange(monthly_kpis[i - 1].value, monthly_kpis[i].value)]
    ELSE [i \in DOMAIN monthly_kpis |-> Frac(0, 1)]

\* lines 501-511: display_df, one row per row of monthly_kpis; the lists
\* new_customers and newly_listed are assigned by position (456, 480)
DisplayDf(monthly_kpis, new_customers, newly_listed) ==
    [i \in DOMAIN monthly_kpis |->
        [Month              |-> monthly_kpis[i].month,
         Sales              |-> monthly_kpis[i].value,
         New_Customers      |-> new_customers[i].count,
         Newly_Listed_Items |-> newly_listed[i].count,
         M_Change           |-> MChange(monthly_kpis)[i]]]

\* lines 482-483: new_customers_df
NewCustomersDf(new_customers) ==
    Concat([i \in DOMAIN new_customers |-> new_customers[i].rows])

\* line 484: newly_listed_items_df
NewlyListedItemsDf(newly_listed) ==
    Concat([i \in DOMAIN newly_listed |-> newly_listed[i].rows])

\* lines 515-518: the tuple that is returned
ReturnTuple(df, pay, figures, display_df, new_customers_df, newly_listed_items_df) ==
    [kind              |-> "tuple",
     total_sales       |-> SumCol(display_df, "Sales"),
     customer_count    |-> Cardinality(Values(df, "customer_code")),
     total_weight      |-> SumCol(df, "weight"),
     Cash_count        |-> pay.Cash_count,
     Credit_count      |-> pay.Credit_count,
     Cash_percentage   |-> pay.Cash_percentage,
     Credit_percentage |-> pay.Credit_percentage,
     figures           |-> figures,
     display_df        |-> display_df,
     new_customers_df  |-> new_customers_df,
     newly_listed_items_df |-> newly_listed_items_df]

\* lines 426-484 for the months of line 204
MonthlyTables(df, main_variable, unique_months) ==
    [kpis          |-> MonthlyKpis(df, main_variable, unique_months),
     new_customers |->
         NewCustomersLoop(df, main_variable, unique_months, 1, {}),
     newly_listed  |->
         NewlyListedLoop(df, main_variable, unique_months, 1, {})]

\* lines 501-518 from the tables of lines 223-397 and 426-484
Assemble(df, figures, tables) ==
    ReturnTuple(df, PaymentStats(df), figures,
                DisplayDf(tables.kpis, tables.new_customers,
                          tables.newly_listed),
                NewCustomersDf(tables.new_customers),
                NewlyListedItemsDf(tables.newly_listed))

\* lines 203-518: what update_dashboard computes from a non-empty
\* filtered dataset
Aggregate(df, main_variable) ==
    Assemble(df, Figures(df, main_variable, UniqueMonths(df)),
             MonthlyTables(df, main_variable, UniqueMonths(df)))

\* Python's None as a returned dashboard_data
NoData == [kind |-> "None"]

\* lines 200-518.  warned: st.warning of line 183 was called;
\* filtered_data: the local of that name when the function returns.
AfterFilterChain(filtered_data, warned, main_variable) ==
    IF filtered_data = <<>>
    THEN [raised |-> FALSE, warned |-> warned,
          filtered_data |-> filtered_data,
          dashboard_data |-> NoData, search_found |-> FALSE]
    ELSE [raised |-> FALSE, warned |-> warned,
          filtered_data |-> filtered_data,
          dashboard_data |-> Aggregate(filtered_data, main_variable),
          search_found |-> TRUE]

\* lines 169-518, from the result of line 167
AfterMasterFilter(master, sel, main_variable) ==
    IF master.raised
    THEN [raised |-> TRUE, warned |-> FALSE, filtered_data |-> <<>>,
          dashboard_data |-> NoData, search_found |-> FALSE]
    ELSE IF ~master.found \/ master.df = <<>>
    THEN [raised |-> FALSE, warned |-> FALSE, filtered_data |-> master.df,
          dashboard_data |-> NoData, search_found |-> FALSE]
    ELSE AfterFilterChain(FilterChain(master.df, sel),
                          MonthQuarterConflict(sel), main_variable)

\* lines 164-518
update_dashboard(df, sel, main_variable, search_term) ==
    AfterMasterFilter(apply_master_filter(df, search_term), sel, main_variable)

\* ------------------------------------------------------------------------
\* The script (Dashboard.py 16-23, 520-680): one run per widget change
\* ------------------------------------------------------------------------

VARIABLES
    data,              \* the loaded dataset (line 25-50)
    main_variable,     \* the radio of line 18-23
    search_term,       \* the text input of line 524
    selected_filters,  \* the eight selectboxes (lines 533-552)
    filter_options,    \* lines 527-531
    filtered_data,     \* update_dashboard's filtered_data when it returned
    dashboard_data,    \* line 560: the first value update_dashboard returned
    search_found,      \* line 560: the second value
    st_messages        \* what the run put on the page

vars ==
    <<data, main_variable, search_term, selected_filters, filter_options,
      filtered_data, dashboard_data, search_found, st_messages>>

main_variable_options == {"total", "weight"}

\* what the user types into the master search filter: nothing, a word with
\* a capital, a pattern with a wildcard, a pattern re cannot compile, a
\* word that is nowhere in the data
SearchTerms ==
    {<<>>, <<"M", "a">>, <<"a", ".">>, <<"[">>, <<"z", "z">>}

NoSelection == [f \in filter_names |-> None]

\* a selectbox returns one of its options; a value that is no option any
\* more falls back to the first option, 'None'
SelectBoxes(options, sel) ==
    [f \in filter_names |-> IF sel[f] \in options[f] THEN sel[f] ELSE None]

\* line 183
ConflictWarning == "warning: selected month is not in the selected quarter"

\* line 568
SearchMissWarning == "warning: no data found matching the search criteria"

\* line 570
FilterMissWarning == "warning: no data available for the selected filters"

\* line 678
UpdateError == "error: an error occurred while updating the dashboard"

\* an exception that no handler catches ends the run with a traceback
UncaughtException == "uncaught exception"

\* lines 559-571 and 677-680: the outcome shown for a result of
\* update_dashboard
Outcome(ud) ==
    IF ud.raised THEN UpdateError
    ELSE IF ~ud.search_found THEN SearchMissWarning
    ELSE IF ud.dashboard_data = NoData THEN FilterMissWarning
    ELSE "dashboard"

\* lines 559-680: update_dashboard is called and its outcome is shown
ShowDashboard(ud, chosen, options) ==
    [selected_filters |-> chosen,
     filter_options   |-> options,
     filtered_data    |-> ud.filtered_data,
     dashboard_data   |-> ud.dashboard_data,
     search_found     |-> ud.search_found,
     st_messages      |->
         {Outcome(ud)} \cup (IF ud.warned THEN {ConflictWarning} ELSE {})]

\* lines 533-565: the selectboxes are drawn with the options of line 531
\* and their values go to update_dashboard
Sidebar(d, chosen, options, mv, term) ==
    ShowDashboard(update_dashboard(d, chosen, mv, term), chosen, options)

\* lines 531-680, from the result of line 530
AfterSearch(d, sel, mv, term, options) ==
    Sidebar(d, SelectBoxes(options, sel), options, mv, term)

\* lines 526-680.  The call of line 530 is outside the try block: when it
\* raises, the run ends there, before the selectboxes are drawn and before
\* update_dashboard is called, so the selectboxes lose their values and
\* lines 560-565 assign nothing.
MasterSearch(d, sel, mv, term, master) ==
    IF master.raised
    THEN [selected_filters |-> NoSelection,
          filter_options   |-> update_filter_options(d),
          filtered_data    |-> <<>>,
          dashboard_data   |-> NoData,
          search_found     |-> FALSE,
          st_messages      |-> {UncaughtException}]
    ELSE AfterSearch(d, sel, mv, term, update_filter_options(master.df))

\* one run of the script, lines 520-680
Script(d, sel, mv, term) ==
    MasterSearch(d, sel, mv, term, apply_master_filter(d, term))

\* the number of widgets that are not at their default
Selections(sel, mv, term) ==
    Cardinality({f \in filter_names : sel[f] # None})
        + (IF mv # "total" THEN 1 ELSE 0)
        + (IF term # <<>> THEN 1 ELSE 0)

\* the script runs again with the widgets' new values
Rerun(sel, mv, term) ==
    \E run \in {Script(data, sel, mv, term)} :
        /\ main_variable' = mv
        /\ search_term' = term
        /\ selected_filters' = run.selected_filters
        /\ filter_options' = run.filter_options
        /\ filtered_data' = run.filtered_data
        /\ dashboard_data' = run.dashboard_data
        /\ search_found' = run.search_found
        /\ st_messages' = run.st_messages
        /\ UNCHANGED data

\* the first run: a dataset is loaded and every widget is at its default
Init ==
    /\ data \in Datasets
    /\ main_variable = "total"
    /\ search_term = <<>>
    /\ \E run \in {Script(data, NoSelection, "total", <<>>)} :
           /\ selected_filters = run.selected_filters
           /\ filter_options = run.filter_options
           /\ filtered_data = run.filtered_data
           /\ dashboard_data = run.dashboard_data
           /\ search_found = run.search_found
           /\ st_messages = run.st_messages

\* the selectboxes are on the page only when line 530 did not raise
SelectboxesDrawn == UncaughtException \notin st_messages

\* the user picks another option of one selectbox
Select(f, value) ==
    /\ SelectboxesDrawn
    /\ value \in filter_options[f]
    /\ value # selected_filters[f]
    /\ Selections([selected_filters EXCEPT ![f] = value],
                  main_variable, search_term) <= MaxSelections
    /\ Rerun([selected_filters EXCEPT ![f] = value], main_variable, search_term)

SelectArea(v) == Select("area", v)

SelectMonth(v) == Select("month", v)

SelectQuarter(v) == Select("quarter", v)

SelectCustomerCategory(v) == Select("customer_category", v)

SelectSalesman(v) == Select("salesman", v)

SelectItemCategory(v) == Select("item_category", v)

SelectCustomerName(v) == Select("customer_name", v)

SelectItemDescription(v) == Select("item_description", v)

\* line 18: the radio
SelectMainVariable(mv) ==
    /\ mv \in main_variable_options
    /\ mv # main_variable
    /\ Selections(selected_filters, mv, search_term) <= MaxSelections
    /\ Rerun(selected_filters, mv, search_term)

\* line 524: the text input
EnterSearchTerm(term) ==
    /\ term \in SearchTerms
    /\ term # search_term
    /\ Selections(selected_filters, main_variable, term) <= MaxSelections
    /\ Rerun(selected_filters, main_variable, term)

\* every value a selectbox can offer
OptionValues == UNION {filter_options[f] : f \in filter_names}

Next ==
    \/ \E v \in OptionValues : SelectArea(v)
    \/ \E v \in OptionValues : SelectMonth(v)
    \/ \E v \in OptionValues : SelectQuarter(v)
    \/ \E v \in OptionValues : SelectCustomerCategory(v)
    \/ \E v \in OptionValues : SelectSalesman(v)
    \/ \E v \in OptionValues : SelectItemCategory(v)
    \/ \E v \in OptionValues : SelectCustomerName(v)
    \/ \E v \in OptionValues : SelectItemDescription(v)
    \/ \E mv \in main_variable_options : SelectMainVariable(mv)
    \/ \E term \in SearchTerms : EnterSearchTerm(term)

Spec == Init /\ [][Next]_vars

\* ------------------------------------------------------------------------
\* Properties
\* ------------------------------------------------------------------------

\* line 530: what the master search filter did with the current search term
SearchResult == apply_master_filter(data, search_term)

\* the search returned and matched at least one row
SearchMatched == ~SearchResult.raised /\ SearchResult.found

BothSelected ==
    selected_filters.month # None /\ selected_filters.quarter # None

MonthInQuarter ==
    selected_filters.month \in Range(quarter_map[selected_filters.quarter])

\* the row passes every selected filter other than month and quarter
PassesOtherFilters(row) ==
    \A f \in filter_names \ {"month", "quarter"} :
        selected_filters[f] = None \/ row[f] = selected_filters[f]

\* C1: with a month and a quarter selected, a month of the quarter
\* restricts the search-filtered rows (that pass the other filters) to that
\* month and no warning is emitted; a month outside the quarter is ignored,
\* the rows are those of the quarter's three months, and the conflict
\* warning is emitted.  The warning is emitted in no other case.
C1_MonthQuarterRule ==
    /\ (ConflictWarning \in st_messages) <=> (BothSelected /\ ~MonthInQuarter)
    /\ BothSelected =>
         filtered_data =
             SelectSeq(SearchResult.df, LAMBDA row :
                 /\ PassesOtherFilters(row)
                 /\ IF MonthInQuarter
                    THEN row.month = selected_filters.month
                    ELSE row.month \in
                             Range(quarter_map[selected_filters.quarter]))

\* C1 witness: a month outside the selected quarter, rows of that month in
\* the searched data, and yet the quarter's rows are what is left, with
\* the warning on the page
C1_Witness ==
    /\ BothSelected
    /\ ~MonthInQuarter
    /\ ConflictWarning \in st_messages
    /\ filtered_data # <<>>
    /\ \E i \in DOMAIN SearchResult.df :
           SearchResult.df[i].month = selected_filters.month
    /\ \A i \in DOMAIN filtered_data :
           filtered_data[i].month # selected_filters.month

\* what update_dashboard returns when the search matches no row
SearchMissReturn ==
    LET ud == update_dashboard(data, selected_filters, main_variable,
                               <<"z", "z">>)
    IN  <<ud.dashboard_data, ud.search_found>>

\* C2: when the search matches a row and the attribute filters leave no
\* row, update_dashboard's result differs from its search-miss result, and
\* the page shows the filter-miss message, not the search-miss message.
C2_FilterMissDistinct ==
    (SearchMatched /\ filtered_data = <<>>) =>
        /\ <<dashboard_data, search_found>> # SearchMissReturn
        /\ FilterMissWarning \in st_messages
        /\ SearchMissWarning \notin st_messages

\* the sum of two fractions is 1
SumsToOne(p, q) == p.num * q.den + q.num * p.den = p.den * q.den

\* C3: in every result with at least one distinct customer, Cash_count +
\* Credit_count is the number of distinct customers and Cash_percentage +
\* Credit_percentage is 1; with no customer both percentages are 0.
C3_PaymentSharesSumToOne ==
    dashboard_data.kind = "tuple" =>
        IF dashboard_data.customer_count > 0
        THEN /\ dashboard_data.Cash_count + dashboard_data.Credit_count
                    = dashboard_data.customer_count
             /\ SumsToOne(dashboard_data.Cash_percentage,
                          dashboard_data.Credit_percentage)
        ELSE /\ dashboard_data.Cash_percentage = Frac(0, 1)
             /\ dashboard_data.Credit_percentage = Frac(0, 1)

\* the calendar-earliest month in which customer c has a row of df
FirstMonthOf(c, df) ==
    CHOOSE m \in Values(FilterEq(df, "customer_code", c), "month") :
        \A n \in Values(FilterEq(df, "customer_code", c), "month") :
            MonthIndex(m) <= MonthIndex(n)

\* C4: for a non-empty filtered dataset the New Customers column sums to
\* the number of distinct customer codes, and the value of each row is the
\* number of customers whose calendar-earliest month is the row's month.
C4_NewCustomersPartition ==
    dashboard_data.kind = "tuple" =>
        /\ SumCol(dashboard_data.display_df, "New_Customers")
               = Cardinality(Values(filtered_data, "customer_code"))
        /\ \A i \in DOMAIN dashboard_data.display_df :
               dashboard_data.display_df[i].New_Customers =
                   Cardinality(
                       {c \in Values(filtered_data, "customer_code") :
                            FirstMonthOf(c, filtered_data)
                                = dashboard_data.display_df[i].Month})

\* C4 witness: a KPI table of several months in which some customer has
\* rows in two months
C4_Witness ==
    /\ dashboard_data.kind = "tuple"
    /\ Len(dashboard_data.display_df) >= 2
    /\ \E c \in Values(filtered_data, "customer_code") :
           Cardinality(Values(FilterEq(filtered_data, "customer_code", c),
                              "month")) >= 2

\* C5: the M.Change% of the first row of every non-empty KPI table is
\* undefined (NaN), also when the table has a single row.
C5_FirstChangeUndefined ==
    dashboard_data.kind = "tuple" =>
        dashboard_data.display_df[1].M_Change = NaN

\* C6: when the attribute filters leave no row of a matching search, a
\* result bundle is still returned, with an empty KPI table and every
\* summary scalar 0.
C6_EmptyFilteredBundle ==
    (SearchMatched /\ filtered_data = <<>>) =>
        /\ dashboard_data.kind = "tuple"
        /\ dashboard_data.display_df = <<>>
        /\ dashboard_data.total_sales = 0
        /\ dashboard_data.customer_count = 0
        /\ dashboard_data.total_weight = 0
        /\ dashboard_data.Cash_count = 0
        /\ dashboard_data.Credit_count = 0
        /\ dashboard_data.Cash_percentage = Frac(0, 1)
        /\ dashboard_data.Credit_percentage = Frac(0, 1)

\* C7: in every row after the first, M.Change% is
\* (value[i] - value[i-1]) / value[i-1] * 100 when value[i-1] is not zero,
\* and undefined (NaN) when it is zero, never an infinity.
C7_ChangeAgainstPreviousRow ==
    dashboard_data.kind = "tuple" =>
        \A i \in DOMAIN dashboard_data.display_df :
            i > 1 =>
                LET prev == dashboard_data.display_df[i - 1].Sales
                    cur == dashboard_data.display_df[i].Sales
                    change == dashboard_data.display_df[i].M_Change
                IN  IF prev # 0
                    THEN /\ change.kind = "num"
                         /\ change.num * prev = (cur - prev) * 100 * change.den
                    ELSE change = NaN

\* the search term is not empty and is no valid regular expression
InvalidSearchTerm ==
    search_term # <<>> /\ ~RegexCompiles(Lower(search_term))

ErrorOutcomes == {UncaughtException, UpdateError}

\* C8: a search term that is no valid regular expression gives no error
\* outcome: apply_master_filter returns a subset and a found flag.
C8_InvalidRegexFallsBack ==
    InvalidSearchTerm =>
        /\ ~SearchResult.raised
        /\ st_messages \cap ErrorOutcomes = {}

\* the lower-cased search term occurs literally in the string s
ContainsLiteral(t, s) ==
    \E off \in 0..(Len(s) - Len(t)) : \A j \in DOMAIN t : t[j] = s[off + j]

\* the search term matches no search column of any row: as a regular
\* expression when it is one, as a literal substring otherwise
MatchesNoRow ==
    \A i \in DOMAIN data : \A c \in DOMAIN search_columns :
        LET s == Lower(AsStr(data[i], search_columns[c]))
            t == Lower(search_term)
        IN  IF RegexCompiles(t) THEN ~RegexSearch(t, s)
            ELSE ~ContainsLiteral(t, s)

\* C9: apply_master_filter returns the dataset unchanged and found = true
\* for the empty search term, an empty subset and found = false for a term
\* that matches no row, and in every case a found flag that is true
\* exactly when the term is empty or the subset is not empty.
C9_SearchContract ==
    /\ ~SearchResult.raised
    /\ search_term = <<>> =>
           (SearchResult.df = data /\ SearchResult.found)
    /\ (search_term # <<>> /\ MatchesNoRow) =>
           (SearchResult.df = <<>> /\ ~SearchResult.found)
    /\ SearchResult.found <=> (search_term = <<>> \/ SearchResult.df # <<>>)

\* C10: the attribute filter chain, applied with the same selection to its
\* own output, gives that output.
C10_FilterChainIdempotent ==
    FilterChain(filtered_data, selected_filters) = filtered_data

\* C10 witness: a conflicting month and quarter, and a chain that removed
\* some rows and kept others
C10_Witness ==
    /\ SearchMatched
    /\ BothSelected
    /\ ~MonthInQuarter
    /\ filtered_data # <<>>
    /\ Len(filtered_data) < Len(SearchResult.df)

\* the keys of a list of records: the set of the values of one field
KeySet(rows, field) == {rows[i][field] : i \in DOMAIN rows}

\* one field of every row of a table, in the order of the rows
Column(rows, field) == [i \in DOMAIN rows |-> rows[i][field]]

\* the filtered rows and the keys of every output of a run, without the
\* summed magnitudes: the members of every grouping, the months of the KPI
\* table with their two counts, and the customer and payment-type scalars
OutputKeys(fd, dd) ==
    IF dd.kind # "tuple" THEN <<fd, dd.kind>>
    ELSE <<fd,
           KeySet(dd.figures.sales_by_area, "key"),
           Column(dd.figures.sales_by_month, "month"),
           KeySet(dd.figures.sales_by_quarter, "quarter"),
           {<<r.salesman, r.area>> :
                r \in Range(dd.figures.sales_by_salesman_area)},
           Range(dd.figures.salesman_order),
           KeySet(dd.figures.pivot_table_item.rows, "key"),
           dd.figures.pivot_table_item.columns,
           KeySet(dd.figures.pivot_table_item_description.rows, "key"),
           dd.figures.pivot_table_item_description.columns,
           KeySet(dd.figures.pivot_table_customer.rows, "key"),
           dd.figures.pivot_table_customer.columns,
           Column(dd.display_df, "Month"),
           Column(dd.display_df, "New_Customers"),
           Column(dd.display_df, "Newly_Listed_Items"),
           dd.customer_count, dd.Cash_count, dd.Credit_count,
           dd.Cash_percentage, dd.Credit_percentage>>

\* C11: a run that differs from the run before it only in the main
\* variable (same dataset, search string and filter selection) has the
\* same filtered rows and the same keys in every output: areas, months,
\* quarters, salesman-area pairs, pivot rows and columns, KPI months, New
\* Customers and Newly Listed Items counts, distinct-customer and
\* payment-type scalars.
C11_MainVariableKeepsKeys ==
    [][main_variable' # main_variable =>
           /\ selected_filters' = selected_filters
           /\ search_found' = search_found
           /\ OutputKeys(filtered_data', dashboard_data')
                  = OutputKeys(filtered_data, dashboard_data)]_vars

\* C11 witness: the dashboard by weight of a filtered dataset in which
\* some area sells a total of zero, and whose magnitudes are not those of
\* the dashboard by total
C11_Witness ==
    /\ main_variable = "weight"
    /\ dashboard_data.kind = "tuple"
    /\ \E f \in filter_names : selected_filters[f] # None
    /\ \E a \in Values(filtered_data, "area") :
           SumCol(FilterEq(filtered_data, "area", a), "total") = 0
    /\ dashboard_data.total_sales # SumCol(filtered_data, "total")

\* the three pivots of a returned dashboard with their index columns
Pivots ==
    {<<"item_category", dashboard_data.figures.pivot_table_item>>,
     <<"item_description",
       dashboard_data.figures.pivot_table_item_description>>,
     <<"customer_name", dashboard_data.figures.pivot_table_customer>>}

\* the main variable summed over the filtered rows whose column col is key
TotalOf(col, key) ==
    SumCol(FilterEq(filtered_data, col, key), main_variable)

\* a list of months is in calendar order, without repetition
InCalendarOrder(months) ==
    \A i, j \in DOMAIN months :
        i < j => MonthIndex(months[i]) < MonthIndex(months[j])

\* C12: in each of the three pivots the rows are the values of the index
\* column, ascending by the row's total of the main variable over all
\* months, and the columns are exactly the months of the filtered dataset,
\* in calendar order.
C12_PivotOrdering ==
    dashboard_data.kind = "tuple" =>
        \A p \in Pivots :
            /\ KeySet(p[2].rows, "key") = Values(filtered_data, p[1])
            /\ Len(p[2].rows) = Cardinality(Values(filtered_data, p[1]))
            /\ \A i \in DOMAIN p[2].rows :
                   i > 1 => TotalOf(p[1], p[2].rows[i - 1].key)
                                <= TotalOf(p[1], p[2].rows[i].key)
            /\ Range(p[2].columns) = Values(filtered_data, "month")
            /\ InCalendarOrder(p[2].columns)

\* C12 witness: a pivot by item category whose rows are not in the order
\* of their names and whose months are not in the order of their names
C12_Witness ==
    /\ dashboard_data.kind = "tuple"
    /\ dashboard_data.figures.pivot_table_item.columns = <<"Jan", "Apr">>
    /\ Column(dashboard_data.figures.pivot_table_item.rows, "key")
           = <<"Food", "Bev">>
    /\ TotalOf("item_category", "Food") < TotalOf("item_category", "Bev")

\* the main variable summed over the filtered rows of one salesman
SalesmanTotal(salesman) == TotalOf("salesman", salesman)

\* the salesman order lists every salesman of the filtered dataset exactly
\* once
OrderListsEverySalesmanOnce ==
    /\ Range(dashboard_data.figures.salesman_order)
           = Values(filtered_data, "salesman")
    /\ Len(dashboard_data.figures.salesman_order)
           = Cardinality(Values(filtered_data, "salesman"))

\* C13 as stated: the salesman order lists every salesman of the filtered
\* dataset exactly once, strictly descending by the salesman's total of
\* the main variable over all areas.
C13_SalesmanOrderStrictlyDescending ==
    dashboard_data.kind = "tuple" =>
        /\ OrderListsEverySalesmanOnce
        /\ \A i \in DOMAIN dashboard_data.figures.salesman_order :
               i > 1 =>
                   SalesmanTotal(dashboard_data.figures.salesman_order[i - 1])
                       > SalesmanTotal(dashboard_data.figures.salesman_order[i])

\* C13 amended: the salesman order lists every salesman of the filtered
\* dataset exactly once, and no salesman's total is larger than the total
\* of a salesman listed before him (equal totals may follow each other).
C13_SalesmanOrderDescending ==
    dashboard_data.kind = "tuple" =>
        /\ OrderListsEverySalesmanOnce
        /\ \A i \in DOMAIN dashboard_data.figures.salesman_order :
               i > 1 =>
                   SalesmanTotal(dashboard_data.figures.salesman_order[i - 1])
                       >= SalesmanTotal(dashboard_data.figures.salesman_order[i])

\* C13 witness: the salesman whose name sorts last is listed first, his
\* total being the larger one
C13_Witness ==
    /\ dashboard_data.kind = "tuple"
    /\ dashboard_data.figures.salesman_order = <<"Bo", "Al">>
    /\ SalesmanTotal("Bo") > SalesmanTotal("Al")

\* the (customer_code, item_code) pairs of a table
Pairs(df) == {<<df[i].customer_code, df[i].item_code>> : i \in DOMAIN df}

\* the calendar-earliest month in which the pair p has a row of df
FirstMonthOfPair(p, df) ==
    CHOOSE m \in Values(df, "month") :
        /\ p \in Pairs(FilterEq(df, "month", m))
        /\ \A n \in Values(df, "month") :
               p \in Pairs(FilterEq(df, "month", n))
                   => MonthIndex(m) <= MonthIndex(n)

\* C14: the monthly KPI table of a non-empty filtered dataset has exactly
\* one row per month of the filtered dataset, in calendar order, and the
\* New Customers and Newly Listed Items of a row are those of the row's
\* month: the customers, and the (customer, item) pairs, whose
\* calendar-earliest month in the filtered dataset is that month.
C14_KpiRowsPerMonth ==
    filtered_data # <<>> =>
        /\ dashboard_data.kind = "tuple"
        /\ Range(Column(dashboard_data.display_df, "Month"))
               = Values(filtered_data, "month")
        /\ InCalendarOrder(Column(dashboard_data.display_df, "Month"))
        /\ \A i \in DOMAIN dashboard_data.display_df :
               LET row == dashboard_data.display_df[i]
               IN  /\ row.New_Customers =
                          Cardinality(
                              {c \in Values(filtered_data, "customer_code") :
                                   FirstMonthOf(c, filtered_data) = row.Month})
                   /\ row.Newly_Listed_Items =
                          Cardinality(
                              {p \in Pairs(filtered_data) :
                                   FirstMonthOfPair(p, filtered_data)
                                       = row.Month})

\* C14 witness: a KPI table of two months whose calendar order is neither
\* the order of their first rows nor the order of their names, with
\* different New Customers in the two rows
C14_Witness ==
    /\ dashboard_data.kind = "tuple"
    /\ Column(filtered_data, "month") = <<"Feb", "Jan">>
    /\ Column(dashboard_data.display_df, "Month") = <<"Jan", "Feb">>
    /\ dashboard_data.display_df[1].New_Customers
           # dashboard_data.display_df[2].New_Customers

\* the grouped sum by month, summed over the months of the list
RECURSIVE SumOfMonths(_, _)
SumOfMonths(sales_by_month, months) ==
    IF sales_by_month = <<>> THEN 0
    ELSE (IF Head(sales_by_month).month \in Range(months)
          THEN Head(sales_by_month).value ELSE 0)
             + SumOfMonths(Tail(sales_by_month), months)

\* C15: in the grouped sum by quarter a quarter appears, once, exactly when
\* some filtered row has one of its three months (Q1 = Jan-Mar, Q2 =
\* Apr-Jun, Q3 = Jul-Sep, Q4 = Oct-Dec); its value is the sum of the
\* grouped-by-month values of its months; and the values of the quarters
\* sum to the main variable's total over the filtered rows.
C15_QuarterGrouping ==
    dashboard_data.kind = "tuple" =>
        LET sq == dashboard_data.figures.sales_by_quarter
        IN  /\ KeySet(sq, "quarter") =
                   {q \in {"Q1", "Q2", "Q3", "Q4"} :
                        \E i \in DOMAIN filtered_data :
                            filtered_data[i].month \in Range(quarter_map[q])}
            /\ Len(sq) = Cardinality(KeySet(sq, "quarter"))
            /\ \A k \in DOMAIN sq :
                   sq[k].value =
                       SumOfMonths(dashboard_data.figures.sales_by_month,
                                   quarter_map[sq[k].quarter])
            /\ SumCol(sq, "value") = SumCol(filtered_data, main_variable)
            /\ SumCol(sq, "value") = dashboard_data.total_sales

\* C15 witness: one quarter with two of its months in the filtered
\* dataset, each with sales, and no other quarter
C15_Witness ==
    /\ dashboard_data.kind = "tuple"
    /\ Column(dashboard_data.figures.sales_by_month, "month")
           = <<"Jan", "Feb">>
    /\ \A i \in DOMAIN dashboard_data.figures.sales_by_month :
           dashboard_data.figures.sales_by_month[i].value > 0
    /\ Column(dashboard_data.figures.sales_by_quarter, "quarter") = <<"Q1">>

\* no two rows of the table agree on all the fields
NoTwoRowsWithSame(rows, fields) ==
    \A i, j \in DOMAIN rows :
        i # j => \E f \in fields : rows[i][f] # rows[j][f]

\* C16: in every row of the monthly KPI table Newly Listed Items is at
\* least New Customers; the new-customers export table has as many rows as
\* the New Customers column sums to, and no customer in two rows; the
\* newly-listed-items export table has as many rows as the Newly Listed
\* Items column sums to, and no (customer, item) pair in two rows.
C16_ExportTablesMatchCounts ==
    dashboard_data.kind = "tuple" =>
        /\ \A i \in DOMAIN dashboard_data.display_df :
               dashboard_data.display_df[i].Newly_Listed_Items
                   >= dashboard_data.display_df[i].New_Customers
        /\ Len(dashboard_data.new_customers_df)
               = SumCol(dashboard_data.display_df, "New_Customers")
        /\ Len(dashboard_data.newly_listed_items_df)
               = SumCol(dashboard_data.display_df, "Newly_Listed_Items")
        /\ NoTwoRowsWithSame(dashboard_data.new_customers_df,
                             {"customer_code"})
        /\ NoTwoRowsWithSame(dashboard_data.newly_listed_items_df,
                             {"customer_code", "item_code"})

\* C16 witness: a customer first seen in the first month buys another item
\* in the second month: a row with a newly listed item and no new customer
C16_Witness ==
    /\ dashboard_data.kind = "tuple"
    /\ Len(dashboard_data.display_df) = 2
    /\ dashboard_data.display_df[2].New_Customers = 0
    /\ dashboard_data.display_df[2].Newly_Listed_Items = 1
    /\ Len(dashboard_data.new_customers_df) = 1
    /\ Len(dashboard_data.newly_listed_items_df) = 2

=============================================================================
